---------------------------- MODULE Spec2Model ----------------------------
(***************************************************************************)
(* A model of the AHP-FCE-TOPSIS evaluation core:                          *)
(*   modules/topsis_module.py   topsis_rank and its helpers                *)
(*   utils/normalization.py     vector_normalize                           *)
(*   modules/ahp_module.py      calculate_weights, calculate_primary_weights*)
(*   modules/evaluator.py       evaluate_batch                             *)
(*   modules/ga_optimizer.py    fitness_function                           *)
(*   modules/fce_module.py      fuzzy_evaluate                             *)
(*   utils/consistency_check.py calculate_cr                               *)
(*                                                                         *)
(* Floating-point quantities are carried on fixed-point grids: a real x is *)
(* the integer x * (the grid's resolution), rounded down.  Python indices  *)
(* are 0-based; sequences here are 1-based, so Python's a[k] is a[k + 1].  *)
(***************************************************************************)
EXTENDS Integers, Sequences, FiniteSets, TLC

VARIABLES
    pc,                 \* position of the running call
    decision_matrix,    \* topsis_rank: argument
    weights,            \* topsis_rank: argument
    indicator_types,    \* topsis_rank: argument
    validate_input,     \* topsis_rank: argument
    topsis_result,      \* topsis_rank: what the call returned or raised
    judgment_matrix,        \* calculate_weights: argument
    validate_consistency,   \* calculate_weights: argument
    cr_threshold,           \* calculate_weights: argument
    ahp_result,             \* calculate_weights: what the call returned or raised
    validation_report,      \* validate_judgment_matrix: the report returned
    schemes,                \* evaluate_batch: argument
    global_weights,         \* evaluate_batch: the AHP weights shared by the batch
    scheme_idx,             \* evaluate_batch: the scheme the loop is at
    individual_results,     \* evaluate_batch: the results collected so far
    batch_decision_matrix,  \* evaluate_batch: the rows collected so far
    batch_results,          \* evaluate_batch: what the call returned or raised
    ahp_weight_runs,        \* evaluate_batch: _calculate_ahp_weights calls so far
    gene_config,            \* fitness_function: argument, the same for every call
    constraints,            \* fitness_function: argument, the same for every call
    solution,               \* fitness_function: chromosome of the latest call
    evaluation,             \* what evaluate_single_scheme does for that chromosome
    fitness_values,         \* the fitness returned by each call so far
    printed,                \* the calls that printed the failure warning
    primary_file,           \* calculate_primary_weights: the primary matrix file
    secondary_files,        \* calculate_primary_weights: the file of each branch
    cap_idx,                \* calculate_primary_weights: the branch the loop is at
    primary_result,         \* calculate_primary_weights: result of the primary matrix
    results,                \* calculate_primary_weights: the dictionary returned
    weights_result,         \* _calculate_ahp_weights: what the call returned or raised
    expert_assessments,     \* fuzzy_evaluate: argument
    fuzzy_scale,            \* fuzzy_evaluate: argument
    validate_membership,    \* fuzzy_evaluate: argument
    fce_result,             \* fuzzy_evaluate: what the call returned or raised
    matrix_size,            \* consistency metrics: n of the judgment matrix
    max_eigenvalue,         \* consistency metrics: its dominant eigenvalue
    matrix_is_valid,        \* calculate_cr: what is_valid_matrix says of it
    consistency_metrics,    \* calculate_weights: the CI and CR of lines 86-95
    cr_result,              \* calculate_cr: what the call returned or raised
    scheme_data,            \* evaluate_single_scheme: argument
    indicator_config,       \* evaluate_single_scheme: argument
    fuzzy_config,           \* evaluate_single_scheme: argument
    expert_judgments,       \* evaluate_single_scheme: argument
    evaluation_result,      \* evaluate_single_scheme: what the call returned or raised
    normalize_result        \* vector_normalize: what the call returned or raised

topsisVars == <<decision_matrix, weights, indicator_types, validate_input,
                topsis_result>>
ahpVars == <<judgment_matrix, validate_consistency, cr_threshold, ahp_result,
             validation_report>>

batchVars == <<schemes, global_weights, scheme_idx, individual_results,
               batch_decision_matrix, batch_results, ahp_weight_runs>>
gaVars == <<gene_config, constraints, solution, evaluation, fitness_values,
            printed>>
primaryVars == <<primary_file, secondary_files, cap_idx, primary_result,
                 results, weights_result>>

fceVars == <<expert_assessments, fuzzy_scale, validate_membership, fce_result>>

crVars == <<matrix_size, max_eigenvalue, matrix_is_valid, consistency_metrics,
            cr_result>>

evalVars == <<scheme_data, indicator_config, fuzzy_config, expert_judgments,
              evaluation_result>>

normVars == <<normalize_result>>

vars == <<pc, topsisVars, ahpVars, batchVars, gaVars, primaryVars, fceVars,
          crVars, evalVars, normVars>>

\* The arguments and result of a function no call of which is in progress.
NoResult == [raised |-> "not called"]
NoCall == <<>>

IdleTopsis ==
    /\ decision_matrix = NoCall /\ weights = NoCall /\ indicator_types = NoCall
    /\ validate_input = NoCall /\ topsis_result = NoResult

IdleAhp ==
    /\ judgment_matrix = NoCall /\ validate_consistency = NoCall
    /\ cr_threshold = NoCall /\ ahp_result = NoResult
    /\ validation_report = NoResult

IdleBatch ==
    /\ schemes = NoCall /\ global_weights = NoCall /\ scheme_idx = 0
    /\ individual_results = NoCall /\ batch_decision_matrix = NoCall
    /\ batch_results = NoResult
    /\ ahp_weight_runs = 0

IdleGa ==
    /\ gene_config = NoCall /\ constraints = NoCall /\ solution = NoCall
    /\ evaluation = NoCall /\ fitness_values = NoCall /\ printed = NoCall

IdlePrimary ==
    /\ primary_file = NoCall /\ secondary_files = NoCall /\ cap_idx = 0
    /\ primary_result = NoResult /\ results = NoCall
    /\ weights_result = NoResult

IdleFce ==
    /\ expert_assessments = NoCall /\ fuzzy_scale = NoCall
    /\ validate_membership = NoCall /\ fce_result = NoResult

IdleCr ==
    /\ matrix_size = NoCall /\ max_eigenvalue = NoCall
    /\ matrix_is_valid = NoCall
    /\ consistency_metrics = NoResult /\ cr_result = NoResult

IdleEval ==
    /\ scheme_data = NoCall /\ indicator_config = NoCall
    /\ fuzzy_config = NoCall /\ expert_judgments = NoCall
    /\ evaluation_result = NoResult

IdleNorm == normalize_result = NoResult

(***************************************************************************)
(* Bounds of the model.                                                    *)
(***************************************************************************)
MaxAlts == 3            \* most alternatives (rows) of a decision matrix

(***************************************************************************)
(* Arithmetic helpers (numpy primitives).                                  *)
(***************************************************************************)
Resolution == 10 ^ 3    \* grid of normalised entries and of Ci
WeightUnit == 10        \* a weight vector sums to 1.0: 10 tenths
NaN == -(10 ^ 6)        \* a float that is not a number: every comparison
                        \* with it is false, every sum or product with it is NaN

HasNaN(v) == \E k \in DOMAIN v : v[k] = NaN

RECURSIVE Isqrt(_)
Isqrt(k) ==             \* floor of the square root
    IF k < 2 THEN k
    ELSE LET s == 2 * Isqrt(k \div 4)
         IN  IF (s + 1) * (s + 1) <= k THEN s + 1 ELSE s

Abs(x) == IF x < 0 THEN -x ELSE x

\* F applied to the value of x: x is evaluated once, however often F uses it.
Bind(x, F(_)) == CHOOSE r \in {F(w) : w \in {x}} : TRUE

RECURSIVE SumSeq(_)
SumSeq(s) == IF s = <<>> THEN 0 ELSE Head(s) + SumSeq(Tail(s))

RECURSIVE MaxSeq(_)
MaxSeq(s) ==
    IF Len(s) = 1 THEN s[1]
    ELSE LET r == MaxSeq(Tail(s)) IN IF s[1] >= r THEN s[1] ELSE r

RECURSIVE MinSeq(_)
MinSeq(s) ==
    IF Len(s) = 1 THEN s[1]
    ELSE LET r == MinSeq(Tail(s)) IN IF s[1] <= r THEN s[1] ELSE r

Range(s) == {s[k] : k \in DOMAIN s}

Column(a, j) == [i \in 1..Len(a) |-> a[i][j]]

\* np.linalg.norm of the difference of two vectors, on the grid of the vectors
Distance(u, v) ==
    IF HasNaN(u) \/ HasNaN(v) THEN NaN
    ELSE Isqrt(SumSeq([j \in 1..Len(u) |-> (u[j] - v[j]) * (u[j] - v[j])]))

Perms(m) == {p \in [1..m -> 1..m] : \A i, j \in 1..m : i # j => p[i] # p[j]}

\* The index orders of every length in use
IndexOrders == [m \in 1..MaxAlts |-> Perms(m)]

\* np.argsort(v) with the default kind (quicksort), which numpy documents as
\* not stable: every order of the indices that sorts v ascending, ties in
\* any order.  order[k] is the index put at position k.
argsort(v) ==
    {p \in IndexOrders[Len(v)] : \A k \in 1..(Len(v) - 1) : v[p[k]] <= v[p[k + 1]]}

\* The argsort of a permutation (it has no ties): the position of each index.
InversePerm(p) == [i \in 1..Len(p) |-> CHOOSE k \in 1..Len(p) : p[k] = i]

Neg(v) == [i \in 1..Len(v) |-> -v[i]]

(***************************************************************************)
(* utils/normalization.py                                                  *)
(***************************************************************************)
\* One column of vector_normalize(axis=0).  Entries of magnitude below 1e-12
\* become 1e-12 before the norm is taken: a column of zeros becomes a column
\* of equal epsilons, each normalised to 1/sqrt(m); next to a non-zero entry
\* an epsilon normalises to less than the grid can resolve.
NormalizeColumn(col) ==
    LET sub  == IF \A i \in DOMAIN col : col[i] = 0
                  THEN [i \in DOMAIN col |-> 1] ELSE col
        sumsq == SumSeq([i \in DOMAIN sub |-> sub[i] * sub[i]])
    IN  [i \in DOMAIN sub |->
            LET r == Isqrt((sub[i] * sub[i] * Resolution * Resolution) \div sumsq)
            IN  IF sub[i] < 0 THEN -r ELSE r]

vector_normalize(a) ==
    LET m == Len(a)
        n == Len(a[1])
        cols == [j \in 1..n |-> NormalizeColumn(Column(a, j))]
    IN  [i \in 1..m |-> [j \in 1..n |-> cols[j][i]]]

(***************************************************************************)
(* modules/topsis_module.py                                                *)
(***************************************************************************)
ValidTypes == {"benefit", "cost"}

\* _validate_topsis_input: the message of the first failed check, or "ok".
\* An array is [ndim, a]: a matrix (ndim 2) holds a sequence of rows.
_validate_topsis_input(dm, w, types) ==
    IF dm.ndim # 2 THEN "Decision matrix must be 2-dimensional"
    ELSE LET m == Len(dm.a)
             n == Len(dm.a[1])
         IN  IF m < 2 THEN "Need at least 2 alternatives for ranking"
             ELSE IF n < 2 THEN "Need at least 2 indicators for evaluation"
             ELSE IF \E i \in 1..m : \E j \in 1..n : dm.a[i][j] < 0
                  THEN "Decision matrix contains negative values"
             ELSE IF w.ndim # 1 THEN "Weights must be 1-dimensional array"
             ELSE IF Len(w.a) # n THEN "Weights length must match number of indicators"
             ELSE IF \E j \in 1..n : w.a[j] # NaN /\ w.a[j] <= 0
                  THEN "All weights must be positive"
             ELSE IF ~HasNaN(w.a) /\ SumSeq(w.a) # WeightUnit
                  THEN "Weights must sum to 1.0"      \* abs(nan - 1.0) > 1e-6 is False
             ELSE IF Len(types) # n
                  THEN "Indicator types length must match number of indicators"
             ELSE "ok"

\* identify_ideal_solutions: PIS and NIS of the weighted matrix.
identify_ideal_solutions(weighted, types) ==
    LET n == Len(weighted[1])
    IN  [PIS |-> [j \in 1..n |-> IF types[j] = "benefit"
                                   THEN MaxSeq(Column(weighted, j))
                                   ELSE MinSeq(Column(weighted, j))],
         NIS |-> [j \in 1..n |-> IF types[j] = "benefit"
                                   THEN MinSeq(Column(weighted, j))
                                   ELSE MaxSeq(Column(weighted, j))]]

\* A bug of step 5: no fallback, 0 / 0 is left as numpy computes it (NaN).
ClosenessCiUnguarded(D_plus, D_minus) ==
    [i \in 1..Len(D_plus) |->
        LET denominator == D_plus[i] + D_minus[i]
        IN  IF D_plus[i] = NaN \/ D_minus[i] = NaN \/ denominator < 1 THEN NaN
            ELSE (D_minus[i] * Resolution) \div denominator]

\* Step 5 of topsis_rank: Ci = D_minus / (D_plus + D_minus), and 0.5 where
\* the denominator is below 1e-15 (on the grid: where it is 0).
ClosenessCi(D_plus, D_minus) ==
    [i \in 1..Len(D_plus) |->
        LET denominator == D_plus[i] + D_minus[i]
        IN  IF D_plus[i] = NaN \/ D_minus[i] = NaN THEN NaN
            ELSE IF denominator < 1 THEN Resolution \div 2
            ELSE (D_minus[i] * Resolution) \div denominator]

\* A ranking bug: ascending ranks (the "len(Ci) -" forgotten).
RankingsAscending(Ci, order) == InversePerm(order)

\* A ranking bug: competition ranks, equal Ci sharing a rank.
RankingsShared(Ci, order) ==
    [i \in 1..Len(Ci) |-> 1 + Cardinality({j \in 1..Len(Ci) : Ci[j] > Ci[i]})]

\* Step 6: rankings = len(Ci) - np.argsort(Ci).argsort(), where order is
\* what np.argsort(Ci) returned.  The 0-based position is InversePerm - 1.
Rankings(Ci, order) ==
    [i \in 1..Len(Ci) |-> Len(Ci) - (InversePerm(order)[i] - 1)]

\* _validate_topsis_results, where sorted_ci_indices is what np.argsort(-Ci)
\* returned.  The closeness warning compares on the Ci grid (0.05 = 50/1000).
_validate_topsis_results(Ci, rankings, D_plus, D_minus, sorted_ci_indices) ==
    LET m == Len(Ci)
        e1 == IF \E i \in 1..m : Ci[i] # NaN /\ (Ci[i] < 0 \/ Ci[i] > Resolution)
              THEN <<"Ci values must be in [0, 1]">> ELSE <<>>
        e2 == IF Cardinality(Range(rankings)) # m
              THEN <<"Rankings must be unique">> ELSE <<>>
        e3 == IF MinSeq(rankings) # 1 \/ MaxSeq(rankings) # m
              THEN <<"Rankings must be 1 to m">> ELSE <<>>
        e4 == IF \E k \in 1..m : rankings[sorted_ci_indices[k]] # k
              THEN <<"Rankings do not match Ci ordering">> ELSE <<>>
        w1 == IF \E i \in 1..m : \/ (D_plus[i] # NaN /\ D_plus[i] <= 0)
                                  \/ (D_minus[i] # NaN /\ D_minus[i] <= 0)
              THEN <<"Some distances to ideal solutions are zero or negative">>
              ELSE <<>>
        w2 == IF /\ ~HasNaN(Ci)
                 /\ \E i, j \in 1..m : i # j /\ 20 * Abs(Ci[i] - Ci[j]) < Resolution
              THEN <<"Some Ci scores are very close">> ELSE <<>>
        errors == e1 \o e2 \o e3 \o e4
    IN  [valid |-> errors = <<>>, warnings |-> w1 \o w2, errors |-> errors]

\* topsis_rank up to step 5 on arrays that passed (or skipped) validation.
TopsisCore(dm, w, types) ==
    LET m == Len(dm.a)
        n == Len(dm.a[1])
    IN  Bind(vector_normalize(dm.a), LAMBDA normalized_matrix :
        Bind([i \in 1..m |-> [j \in 1..n |->
                 IF w.a[j] = NaN THEN NaN ELSE normalized_matrix[i][j] * w.a[j]]],
             LAMBDA weighted_matrix :
        Bind(identify_ideal_solutions(weighted_matrix, types), LAMBDA ideal :
        Bind([i \in 1..m |-> Distance(weighted_matrix[i], ideal.PIS)],
             LAMBDA D_plus :
        Bind([i \in 1..m |-> Distance(weighted_matrix[i], ideal.NIS)],
             LAMBDA D_minus :
            [normalized_matrix |-> normalized_matrix,
             weighted_matrix |-> weighted_matrix,
             PIS |-> ideal.PIS, NIS |-> ideal.NIS,
             D_plus |-> D_plus, D_minus |-> D_minus,
             Ci |-> ClosenessCi(D_plus, D_minus)])))))

\* The exception topsis_rank raises before step 6, or "none".
TopsisRaises(dm, w, types, validate) ==
    IF validate /\ _validate_topsis_input(dm, w, types) # "ok"
        THEN "DataValidationError"
    ELSE IF dm.ndim # 2 THEN "ValueError"            \* m, n = shape
    ELSE IF \E j \in DOMAIN types : types[j] \notin ValidTypes
        THEN "DataValidationError"                   \* identify_ideal_solutions
    ELSE IF w.ndim # 1 \/ Len(w.a) # Len(dm.a[1]) THEN "ValueError"  \* broadcast
    ELSE IF Len(types) < Len(dm.a[1]) THEN "IndexError"
    ELSE "none"

\* The value topsis_rank returns, given the outcome of its steps 1-5 (core)
\* and the two argsort results.
topsis_rank(core, order, sorted_ci_indices) ==
    Bind(Rankings(core.Ci, order), LAMBDA rankings :
        [raised |-> "none",
         Ci |-> core.Ci,
         rankings |-> rankings,
         PIS |-> core.PIS, NIS |-> core.NIS,
         D_plus |-> core.D_plus, D_minus |-> core.D_minus,
         normalized_matrix |-> core.normalized_matrix,
         weighted_matrix |-> core.weighted_matrix,
         validation |-> _validate_topsis_results(core.Ci, rankings,
                            core.D_plus, core.D_minus, sorted_ci_indices)])

(***************************************************************************)
(* Inputs of a topsis_rank call.                                           *)
(***************************************************************************)
Levels == {0, 1, 2}                     \* indicator measurements
Rows == [1..2 -> Levels]
Matrices == UNION {[1..m -> Rows] : m \in 2..MaxAlts}
WeightVectors == {<<5, 5>>, <<3, 7>>, <<8, 2>>}
TypeVectors == [1..2 -> ValidTypes]

\* Inputs that break one of the documented input requirements.
BadCalls ==
    LET good == [ndim |-> 2, a |-> <<<<1, 2>>, <<2, 1>>>>]
        w    == [ndim |-> 1, a |-> <<5, 5>>]
        t    == <<"benefit", "cost">>
    IN  << <<[ndim |-> 1, a |-> <<1, 2>>], w, t>>,
          <<[ndim |-> 2, a |-> <<<<1, 2>>>>], w, t>>,
          <<[ndim |-> 2, a |-> <<<<1>>, <<2>>>>], [ndim |-> 1, a |-> <<10>>],
            <<"benefit">> >>,
          <<[ndim |-> 2, a |-> <<<<1, -2>>, <<2, 1>>>>], w, t>>,
          <<good, [ndim |-> 2, a |-> <<5, 5>>], t>>,
          <<good, [ndim |-> 1, a |-> <<5, 3, 2>>], t>>,
          <<good, [ndim |-> 1, a |-> <<10, 0>>], t>>,
          <<good, [ndim |-> 1, a |-> <<12, -2>>], t>>,
          <<good, [ndim |-> 1, a |-> <<5, 4>>], t>>,
          <<good, w, <<"benefit">> >>,
          <<good, w, <<"benefit", "cost", "cost">> >>,
          <<good, w, <<"benefit", "neutral">> >>,
          <<good, [ndim |-> 1, a |-> <<NaN, 5>>], t>> >>

InitTopsis ==
    /\ pc = "topsis_rank"
    /\ IdleAhp /\ IdleBatch /\ IdleGa /\ IdlePrimary /\ IdleFce
    /\ IdleCr /\ IdleEval /\ IdleNorm
    /\ topsis_result = NoResult
    /\ validate_input \in BOOLEAN
    /\ \/ /\ decision_matrix \in {[ndim |-> 2, a |-> a] : a \in Matrices}
          /\ weights \in {[ndim |-> 1, a |-> a] : a \in WeightVectors}
          /\ indicator_types \in TypeVectors
       \/ \E k \in DOMAIN BadCalls :
             /\ decision_matrix = BadCalls[k][1]
             /\ weights = BadCalls[k][2]
             /\ indicator_types = BadCalls[k][3]

\* One call of topsis_rank.
TopsisRank ==
    /\ pc = "topsis_rank"
    /\ pc' = "done"
    /\ LET raised == TopsisRaises(decision_matrix, weights, indicator_types,
                                  validate_input)
       IN  IF raised # "none"
           THEN topsis_result' = [raised |-> raised]
           ELSE \E core \in {TopsisCore(decision_matrix, weights,
                                         indicator_types)} :
                \E order \in argsort(core.Ci) :
                \E sorted_ci_indices \in argsort(Neg(core.Ci)) :
                    topsis_result' = topsis_rank(core, order, sorted_ci_indices)
    /\ UNCHANGED <<decision_matrix, weights, indicator_types, validate_input>>
    /\ UNCHANGED <<ahpVars, batchVars, gaVars, primaryVars, fceVars,
                 crVars, evalVars, normVars>>

NextTopsis == TopsisRank

SpecTopsis == InitTopsis /\ [][NextTopsis]_vars

(***************************************************************************)
(* Claims about topsis_rank, checked under SpecTopsis.                     *)
(***************************************************************************)
Returned == pc = "done" /\ topsis_result.raised = "none"
Alts == 1..Len(topsis_result.Ci)
InputAccepted ==
    _validate_topsis_input(decision_matrix, weights, indicator_types) = "ok"
HasTie ==
    \E i, j \in Alts : /\ i < j /\ topsis_result.Ci[i] # NaN
                       /\ topsis_result.Ci[i] = topsis_result.Ci[j]

\* C1: whenever two alternatives i < j have exactly equal Ci, the lower
\* original index i gets the better (smaller) rank.
C1_LowerIndexWinsTie ==
    Returned =>
        \A i, j \in Alts :
            (/\ i < j /\ topsis_result.Ci[i] # NaN
             /\ topsis_result.Ci[i] = topsis_result.Ci[j])
                => topsis_result.rankings[i] < topsis_result.rankings[j]

C3_HigherCiBetterRank ==
    Returned =>
        \A i, j \in Alts :
            topsis_result.Ci[i] > topsis_result.Ci[j]
                => topsis_result.rankings[i] < topsis_result.rankings[j]

C3_Witness ==
    /\ Returned /\ InputAccepted
    /\ \E i, j \in Alts : topsis_result.Ci[i] > topsis_result.Ci[j]

\* C8: for every input that passes input validation, the returned validation
\* object has valid = True and no errors.
C8_SelfCheckAccepts ==
    (Returned /\ InputAccepted) =>
        /\ topsis_result.validation.valid
        /\ topsis_result.validation.errors = <<>>

(***************************************************************************)
(* modules/ahp_module.py: validate_judgment_matrix and calculate_weights.  *)
(*                                                                         *)
(* A judgment a is carried as a * EntryUnit, so that the ratios 1/k are    *)
(* whole numbers; two entries are reciprocal when their product is         *)
(* EntryUnit squared.  The tolerance of np.allclose is far below one step  *)
(* of this grid, so "within tolerance of 1.0" is equality on the grid.     *)
(***************************************************************************)
MaxRatio == 3           \* judgments range over 1/MaxRatio .. MaxRatio
PowerSteps == 20        \* iterations of the dominant-eigenvector solver

RECURSIVE Factorial(_)
Factorial(k) == IF k <= 1 THEN 1 ELSE k * Factorial(k - 1)

EntryUnit == Factorial(MaxRatio)    \* the judgment 1.0
Precision == 10 ^ 4                 \* grid of an eigenvector and of AHP weights
Inf == 10 ^ 6                       \* a non-finite entry (inf or nan)

NumRows(M) == Len(M.a)
NumCols(M) == IF Len(M.a) = 0 THEN 0 ELSE Len(M.a[1])
Size(M) == IF M.ndim = 1 THEN Len(M.a) ELSE NumRows(M) * NumCols(M)

\* np.isfinite(judgment_matrix).all()
AllFinite(M) ==
    IF M.ndim = 1 THEN \A k \in DOMAIN M.a : M.a[k] # Inf
    ELSE \A i \in DOMAIN M.a : \A j \in DOMAIN M.a[i] : M.a[i][j] # Inf

ReciprocalMessage == "Matrix must satisfy reciprocal property A[i][j] = 1/A[j][i]"

\* A bug of the overall validation: the reciprocal check left out.
OverallValidationWithoutReciprocal(is_square, positive_elements, diagonal_ones, reciprocal_property) ==
    is_square /\ positive_elements /\ diagonal_ones

\* Lines 178-182: result['is_valid']
OverallValidation(is_square, positive_elements, diagonal_ones, reciprocal_property) ==
    is_square /\ positive_elements /\ diagonal_ones /\ reciprocal_property

\* _validate_judgment_matrix
_validate_judgment_matrix(M) ==
    LET result == [is_square |-> FALSE, positive_elements |-> FALSE,
                   diagonal_ones |-> FALSE, reciprocal_property |-> FALSE,
                   is_valid |-> FALSE, error_messages |-> <<>>]
    IN  IF M.ndim # 2
        THEN [result EXCEPT !.error_messages = <<"Matrix must be 2-dimensional">>]
        ELSE IF NumRows(M) # NumCols(M)
        THEN [result EXCEPT !.error_messages = <<"Matrix must be square">>]
        ELSE
          LET n == NumRows(M)
              positive == \A i, j \in 1..n : M.a[i][j] > 0
              diagonal == \A i \in 1..n : M.a[i][i] = EntryUnit
              reciprocal == \A i, j \in 1..n :
                                /\ M.a[i][j] # Inf /\ M.a[j][i] # Inf
                                /\ M.a[i][j] * M.a[j][i] = EntryUnit * EntryUnit
          IN  [is_square |-> TRUE,
               positive_elements |-> positive,
               diagonal_ones |-> diagonal,
               reciprocal_property |-> reciprocal,
               is_valid |-> OverallValidation(TRUE, positive, diagonal,
                                              reciprocal),
               error_messages |->
                   (IF positive THEN <<>>
                    ELSE <<"All matrix elements must be positive">>)
                   \o (IF diagonal THEN <<>>
                       ELSE <<"Diagonal elements must be 1.0">>)
                   \o (IF reciprocal THEN <<>> ELSE <<ReciprocalMessage>>)]

validate_judgment_matrix(M) == _validate_judgment_matrix(M)

\* "reciprocal" in str(validation['error_messages']): of the messages above
\* only the reciprocal one holds the word.
MentionsReciprocal(validation) ==
    \E k \in DOMAIN validation.error_messages :
        validation.error_messages[k] = ReciprocalMessage

\* A bug of the failure policy: the reciprocal tolerance applied whatever
\* validate_consistency is.
StructuralErrorLenient(validation, vc) ==
    ~validation.is_valid /\ ~MentionsReciprocal(validation)

\* Lines 59-65: whether the failed validation raises JudgmentMatrixError.
StructuralError(validation, vc) ==
    /\ ~validation.is_valid
    /\ ~(~vc /\ MentionsReciprocal(validation))

\* A bug of the consistency check: a CR equal to the threshold accepted.
ConsistencyErrorStrict(vc, CR, threshold) == vc /\ CR > threshold

\* Line 99: whether the consistency check raises AHPConsistencyError.
ConsistencyError(vc, CR, threshold) == vc /\ CR >= threshold

(***************************************************************************)
(* np.linalg.eig followed by the choice of the eigenvalue of largest real  *)
(* part (lines 70-77): the dominant eigenvalue, on the grid of Resolution, *)
(* and the absolute value of its eigenvector, up to scale.  Solved in      *)
(* closed form for n <= 2 and for diagonal matrices, and by power          *)
(* iteration for the positive matrices of larger size, whose dominant      *)
(* eigenvalue is real and simple.                                          *)
(***************************************************************************)
IsDiagonal(a) == \A i, j \in 1..Len(a) : i # j => a[i][j] = 0

\* np.argmax: the first index of the largest value
ArgMax(v) == CHOOSE k \in DOMAIN v :
                /\ \A j \in DOMAIN v : v[j] <= v[k]
                /\ \A j \in 1..(k - 1) : v[j] < v[k]

EigDiagonal(a) ==
    LET d == [i \in 1..Len(a) |-> a[i][i]]
        k == ArgMax(d)
    IN  [lambda_max |-> (d[k] * Resolution) \div EntryUnit,
         vector |-> [i \in 1..Len(a) |-> IF i = k THEN 1 ELSE 0]]

\* [[p, q], [r, s]] with q * r >= 0: the eigenvalues are real.
EigTwo(a) ==
    LET p == a[1][1]
        q == a[1][2]
        r == a[2][1]
        t == a[2][2]
        root == Isqrt(((p - t) * (p - t) + 4 * q * r) * 10000)
        twice == (p + t) * 100 + root        \* 2 * lambda * EntryUnit * 100
    IN  [lambda_max |-> (twice * (Resolution \div 100)) \div (2 * EntryUnit),
         vector |-> IF q # 0 THEN <<200 * Abs(q), Abs(twice - 200 * p)>>
                    ELSE <<Abs(twice - 200 * t), 200 * Abs(r)>>]

MatVec(a, v) ==
    [i \in 1..Len(a) |-> SumSeq([j \in 1..Len(a) |-> a[i][j] * v[j]]) \div EntryUnit]

\* v / sum(v) on the grid of Precision
SumNormalize(v) == [i \in DOMAIN v |-> (v[i] * Precision) \div SumSeq(v)]

\* k steps of v <- (a v) / sum(a v)
RECURSIVE PowerIterate(_, _, _)
PowerIterate(a, v, k) ==
    IF k = 0 THEN v
    ELSE Bind(SumNormalize(MatVec(a, v)), LAMBDA w : PowerIterate(a, w, k - 1))

EigPositive(a) ==
    Bind(PowerIterate(a, [i \in 1..Len(a) |-> Precision \div Len(a)], PowerSteps),
         LAMBDA v : Bind(MatVec(a, v), LAMBDA av :
             [lambda_max |-> (SumSeq(av) * Resolution) \div SumSeq(v),
              vector |-> v]))

DominantEig(a) ==
    IF IsDiagonal(a) THEN EigDiagonal(a)
    ELSE IF Len(a) = 2 THEN EigTwo(a)
    ELSE EigPositive(a)

\* RI_TABLE.get(n, 1.59), in hundredths
RI_TABLE(n) ==
    CASE n = 1 -> 0   [] n = 2 -> 0   [] n = 3 -> 58  [] n = 4 -> 90
      [] n = 5 -> 112 [] n = 6 -> 124 [] n = 7 -> 132 [] n = 8 -> 141
      [] n = 9 -> 145 [] n = 10 -> 149 [] OTHER -> 159

\* A bug of line 95: CI / RI without the guard, non-finite for RI = 0.
ConsistencyRatioUnguarded(CI, RI) ==
    IF RI = 0 THEN Inf ELSE (CI * 100) \div RI

\* Line 95: CR = CI / RI if RI > 0 else 0.0
ConsistencyRatio(CI, RI) ==
    IF RI > 0 THEN (CI * 100) \div RI ELSE 0

\* Lines 86-95: CI and CR on the grid of Resolution
ConsistencyMetrics(lambda_max, n) ==
    IF n = 1 THEN [CI |-> 0, CR |-> 0]
    ELSE LET CI == (lambda_max - n * Resolution) \div (n - 1)
             RI == RI_TABLE(n)
         IN  [CI |-> CI, CR |-> ConsistencyRatio(CI, RI)]

\* A normalisation bug: the eigenvector divided by its largest entry.
NormalizeWeightsByMax(principal_eigenvector) ==
    [i \in DOMAIN principal_eigenvector |->
        (principal_eigenvector[i] * Precision) \div MaxSeq(principal_eigenvector)]

\* Line 83: weights = principal_eigenvector / np.sum(principal_eigenvector)
NormalizeWeights(principal_eigenvector) == SumNormalize(principal_eigenvector)

\* calculate_weights: the record returned, or the exception raised.
calculate_weights(M, vc, threshold) ==
    IF Size(M) = 0 THEN [raised |-> "JudgmentMatrixError"]
    ELSE IF ~AllFinite(M) THEN [raised |-> "JudgmentMatrixError"]
    ELSE
      LET validation == validate_judgment_matrix(M)
      IN  IF StructuralError(validation, vc)
          THEN [raised |-> "JudgmentMatrixError"]
          ELSE
            Bind(DominantEig(M.a), LAMBDA eig :
              LET n == NumRows(M)
                  metrics == ConsistencyMetrics(eig.lambda_max, n)
              IN  IF ConsistencyError(vc, metrics.CR, threshold)
                  THEN [raised |-> "AHPConsistencyError"]
                  ELSE [raised |-> "none",
                        weights |-> NormalizeWeights(eig.vector),
                        lambda_max |-> eig.lambda_max,
                        CI |-> metrics.CI,
                        CR |-> metrics.CR,
                        valid |-> TRUE,
                        validation |-> validation])

(***************************************************************************)
(* Inputs of a calculate_weights call.                                     *)
(***************************************************************************)
Ratios == {k * EntryUnit : k \in 1..MaxRatio} \cup {EntryUnit \div k : k \in 1..MaxRatio}
Reciprocal(x) == (EntryUnit * EntryUnit) \div x

DimOne == {<<<<x>>>> : x \in {-EntryUnit, 0, EntryUnit, 2 * EntryUnit}}

DimTwo ==
    {<<<<p, q>>, <<r, t>>>> :
        p \in {-EntryUnit, EntryUnit, 2 * EntryUnit},
        t \in {-EntryUnit, EntryUnit, 2 * EntryUnit},
        q \in Ratios \cup {0}, r \in Ratios \cup {0}}

\* 3 x 3: a reciprocal matrix, or one whose entry [2][1] repeats [1][2], or
\* one whose entry [1][1] is 2; and the identity.
DimThree ==
    {<<<<(IF defect = "diagonal" THEN 2 ELSE 1) * EntryUnit, x, y>>,
       <<(IF defect = "reciprocal" THEN x ELSE Reciprocal(x)), EntryUnit, z>>,
       <<Reciprocal(y), Reciprocal(z), EntryUnit>>>> :
        x \in Ratios, y \in Ratios, z \in Ratios,
        defect \in {"none", "reciprocal", "diagonal"}}
    \cup {[i \in 1..3 |-> [j \in 1..3 |-> IF i = j THEN EntryUnit ELSE 0]]}

Malformed ==
    << [ndim |-> 2, a |-> <<>>],
       [ndim |-> 1, a |-> <<>>],
       [ndim |-> 1, a |-> <<EntryUnit, EntryUnit>>],
       [ndim |-> 2, a |-> <<<<EntryUnit, 2 * EntryUnit, EntryUnit>>,
                            <<EntryUnit \div 2, EntryUnit, EntryUnit>>>>],
       [ndim |-> 2, a |-> <<<<EntryUnit, Inf>>, <<EntryUnit, EntryUnit>>>>],
       [ndim |-> 2, a |-> <<<<Inf>>>>] >>

JudgmentMatrices ==
    {[ndim |-> 2, a |-> a] : a \in DimOne \cup DimTwo \cup DimThree}

\* cr_threshold, on the grid of Resolution: 0, 0.008 and the default 0.1
Thresholds == {0, 8, Resolution \div 10}

InitAhp ==
    /\ pc \in {"calculate_weights", "validate_judgment_matrix"}
    /\ IdleTopsis /\ IdleBatch /\ IdleGa /\ IdlePrimary /\ IdleFce
    /\ IdleCr /\ IdleEval /\ IdleNorm
    /\ \/ judgment_matrix \in JudgmentMatrices
       \/ \E k \in DOMAIN Malformed : judgment_matrix = Malformed[k]
    /\ validate_consistency \in BOOLEAN
    /\ cr_threshold \in Thresholds
    /\ ahp_result = NoResult
    /\ validation_report = NoResult

\* One call of calculate_weights.
CalculateWeights ==
    /\ pc = "calculate_weights"
    /\ pc' = "done"
    /\ ahp_result' = calculate_weights(judgment_matrix, validate_consistency,
                                       cr_threshold)
    /\ UNCHANGED <<judgment_matrix, validate_consistency, cr_threshold,
                   validation_report>>
    /\ UNCHANGED <<topsisVars, batchVars, gaVars, primaryVars, fceVars,
                 crVars, evalVars, normVars>>

\* One call of validate_judgment_matrix.
ValidateJudgmentMatrix ==
    /\ pc = "validate_judgment_matrix"
    /\ pc' = "validated"
    /\ validation_report' = validate_judgment_matrix(judgment_matrix)
    /\ UNCHANGED <<judgment_matrix, validate_consistency, cr_threshold,
                   ahp_result>>
    /\ UNCHANGED <<topsisVars, batchVars, gaVars, primaryVars, fceVars,
                 crVars, evalVars, normVars>>

NextAhp == CalculateWeights \/ ValidateJudgmentMatrix

SpecAhp == InitAhp /\ [][NextAhp]_vars

(***************************************************************************)
(* Properties of calculate_weights, under SpecAhp.                         *)
(***************************************************************************)
AhpCalled == ahp_result.raised # "not called"
NonEmptyFinite == Size(judgment_matrix) # 0 /\ AllFinite(judgment_matrix)

\* The CR that lines 86-95 compute for the matrix of the call.
ComputedCR ==
    Bind(DominantEig(judgment_matrix.a), LAMBDA eig :
        ConsistencyMetrics(eig.lambda_max, NumRows(judgment_matrix)).CR)

\* The call got as far as the consistency check of line 99.
ReachedConsistencyCheck ==
    /\ NonEmptyFinite
    /\ ~StructuralError(validate_judgment_matrix(judgment_matrix),
                        validate_consistency)

\* C5: with validate_consistency = False, a non-empty finite matrix raises the
\* structural error if and only if it fails the square, the positive or the
\* unit-diagonal check; a reciprocal violation never makes one of those three
\* failures tolerated.
C5_OtherChecksEnforced ==
    (AhpCalled /\ ~validate_consistency /\ NonEmptyFinite) =>
        LET validation == validate_judgment_matrix(judgment_matrix)
        IN  (ahp_result.raised = "JudgmentMatrixError")
                <=> \/ ~validation.is_square
                    \/ ~validation.positive_elements
                    \/ ~validation.diagonal_ones

\* C6: the consistency error is raised exactly when validate_consistency = True
\* and the computed CR is greater than or equal to cr_threshold; with
\* validate_consistency = False it is never raised, and a result returned with
\* validate_consistency = True has a CR strictly below the threshold.
C6_ConsistencyErrorIffCrAtLeastThreshold ==
    AhpCalled =>
        /\ (ahp_result.raised = "AHPConsistencyError")
              <=> /\ validate_consistency
                  /\ ReachedConsistencyCheck
                  /\ ComputedCR >= cr_threshold
        /\ ~validate_consistency => ahp_result.raised # "AHPConsistencyError"
        /\ (validate_consistency /\ ahp_result.raised = "none")
              => ahp_result.CR < cr_threshold

\* a CR equal to the threshold was rejected
C6_Witness ==
    /\ ahp_result.raised = "AHPConsistencyError"
    /\ validate_consistency
    /\ ComputedCR = cr_threshold

ArgMin(v) == CHOOSE k \in DOMAIN v :
                /\ \A j \in DOMAIN v : v[k] <= v[j]
                /\ \A j \in 1..(k - 1) : v[k] < v[j]

\* Python's s[k] for -len(s) <= k < len(s): a negative index counts from the end.
PyIndex(s, k) == IF k < 0 THEN s[Len(s) + k + 1] ELSE s[k + 1]

\* Line 230: np.argmin(rankings) - 1, as a Python (0-based) index.
best_rank_idx(rankings) == (ArgMin(rankings) - 1) - 1

\* Lines 211-244, given the result of topsis_rank: the loop of line 212 reads
\* Ci[i] for every scheme (IndexError when a scheme contributed no row) and
\* writes 'Ci' and 'rank' into the result evaluate_single_scheme returned for
\* the scheme, whose other entries stay.
BatchResults(batch, topsis) ==
    IF Len(topsis.Ci) < Len(batch) THEN [raised |-> "EvaluationError"]
    ELSE LET idx == best_rank_idx(topsis.rankings)
         IN  [raised |-> "none",
              num_schemes |-> Len(batch),
              individual_results |->
                  [i \in 1..Len(batch) |->
                      [Ci |-> topsis.Ci[i], rank |-> topsis.rankings[i]]
                          @@ batch[i].evaluation],
              comparison_matrix |->
                  [Ci_scores |-> topsis.Ci, rankings |-> topsis.rankings],
              best_scheme |->
                  [scheme_id |-> PyIndex(batch, idx).scheme_id,
                   Ci_score |-> PyIndex(topsis.Ci, idx),
                   rank |-> 1]]

SchemeEvaluations ==
    {[raised |-> "EvaluationError", indicator_values |-> <<>>]}
    \cup {[raised |-> "none", indicator_values |-> r, rank |-> 1] :
             r \in Rows \cup {<<>>}}

SchemeLists ==
    UNION {{[i \in 1..m |-> [scheme_id |-> i, evaluation |-> f[i]]] :
               f \in [1..m -> SchemeEvaluations]} : m \in 1..MaxAlts}

InitBatch ==
    /\ pc = "evaluate_batch"
    /\ IdleTopsis /\ IdleAhp /\ IdleGa /\ IdlePrimary /\ IdleFce
    /\ IdleCr /\ IdleEval /\ IdleNorm
    /\ schemes \in SchemeLists
    /\ global_weights = NoCall
    /\ scheme_idx = 0
    /\ individual_results = <<>>
    /\ batch_decision_matrix = <<>>
    /\ batch_results = NoResult
    /\ ahp_weight_runs = 0

\* Lines 154-175: the size check and the single _calculate_ahp_weights call,
\* which raises or gives the global weights.
BatchStart ==
    /\ pc = "evaluate_batch"
    /\ IF Len(schemes) < 2
       THEN /\ pc' = "done"
            /\ batch_results' = [raised |-> "EvaluationError"]
            /\ UNCHANGED <<global_weights, scheme_idx, ahp_weight_runs>>
       ELSE /\ ahp_weight_runs' = ahp_weight_runs + 1
            /\ \/ /\ pc' = "done"
                  /\ batch_results' = [raised |-> "EvaluationError"]
                  /\ UNCHANGED <<global_weights, scheme_idx>>
               \/ /\ pc' = "batch_loop"
                  /\ global_weights' \in WeightVectors
                  /\ scheme_idx' = 1
                  /\ UNCHANGED batch_results
    /\ UNCHANGED <<schemes, individual_results, batch_decision_matrix>>
    /\ UNCHANGED <<topsisVars, ahpVars, gaVars, primaryVars, fceVars,
                 crVars, evalVars, normVars>>

\* Lines 177-198: one turn of the loop over the schemes.  A call of
\* evaluate_single_scheme that returns has run _calculate_ahp_weights itself
\* (lines 78-80); one that raises did so before or after that step.
EvaluateScheme ==
    /\ pc = "batch_loop"
    /\ scheme_idx <= Len(schemes)
    /\ LET result == schemes[scheme_idx].evaluation
       IN  IF result.raised # "none"
           THEN /\ pc' = "done"
                /\ batch_results' = [raised |-> "EvaluationError"]
                /\ ahp_weight_runs' \in
                      {ahp_weight_runs, ahp_weight_runs + 1}
                /\ UNCHANGED <<scheme_idx, individual_results,
                               batch_decision_matrix>>
           ELSE /\ ahp_weight_runs' = ahp_weight_runs + 1
                /\ individual_results' = Append(individual_results, result)
                /\ batch_decision_matrix' =
                      IF result.indicator_values # <<>>
                      THEN Append(batch_decision_matrix, result.indicator_values)
                      ELSE batch_decision_matrix
                /\ scheme_idx' = scheme_idx + 1
                /\ UNCHANGED <<pc, batch_results>>
    /\ UNCHANGED <<schemes, global_weights>>
    /\ UNCHANGED <<topsisVars, ahpVars, gaVars, primaryVars, fceVars,
                 crVars, evalVars, normVars>>

\* Lines 200-247: topsis_rank on the collected rows, the per-scheme Ci and
\* rank, and the best scheme.  np.array of no rows is 1-dimensional.
RankBatch ==
    /\ pc = "batch_loop"
    /\ scheme_idx > Len(schemes)
    /\ pc' = "done"
    /\ \E types \in TypeVectors :
         LET dm == [ndim |-> IF batch_decision_matrix = <<>> THEN 1 ELSE 2,
                    a |-> batch_decision_matrix]
             w == [ndim |-> 1, a |-> global_weights]
         IN  IF TopsisRaises(dm, w, types, TRUE) # "none"
             THEN batch_results' = [raised |-> "EvaluationError"]
             ELSE \E core \in {TopsisCore(dm, w, types)} :
                  \E order \in argsort(core.Ci) :
                  \E sorted_ci_indices \in argsort(Neg(core.Ci)) :
                      batch_results' =
                          Bind(topsis_rank(core, order, sorted_ci_indices),
                               LAMBDA topsis : BatchResults(schemes, topsis))
    /\ UNCHANGED <<schemes, global_weights, scheme_idx, individual_results,
                   batch_decision_matrix, ahp_weight_runs>>
    /\ UNCHANGED <<topsisVars, ahpVars, gaVars, primaryVars, fceVars,
                 crVars, evalVars, normVars>>

NextBatch == BatchStart \/ EvaluateScheme \/ RankBatch

SpecBatch == InitBatch /\ [][NextBatch]_vars

BatchReturned == batch_results.raised = "none"

\* C4: for every batch of at least 2 schemes, the best_scheme reported holds
\* rank 1 in the batch ranking, and the Ci_score reported is the batch Ci of
\* that scheme.
C4_BestSchemeHoldsRankOne ==
    BatchReturned =>
        LET best == batch_results.best_scheme
            own == batch_results.individual_results[best.scheme_id]
        IN  /\ own.rank = 1
            /\ best.Ci_score = own.Ci

(***************************************************************************)
(* modules/ga_optimizer.py: decode_chromosome, validate_constraints and    *)
(* fitness_function, called by the optimizer once per chromosome.          *)
(*                                                                         *)
(* Fitness and Ci are on the grid of Resolution; costs are in tenths of a  *)
(* million.  What evaluate_single_scheme does with a decoded configuration *)
(* comes with the call: it raises, or it returns a ci_score.               *)
(***************************************************************************)
MaxPopulation == 3      \* most fitness calls of a run

LowFitness == 1         \* 0.001
WarningPenalty == 100   \* 0.1 for each warning

Max(x, y) == IF x >= y THEN x ELSE y

\* The exception decode_chromosome meets (and wraps in GAError), or "none":
\* gene_config['platform_types'] is missing, or the chromosome is too short
\* for the platform counts or for the coordinates of the single zone.
DecodeRaises(chromosome, gc) ==
    IF ~gc.has_platform_types THEN "KeyError"
    ELSE IF Len(chromosome) < Len(gc.platform_types) THEN "IndexError"
    ELSE IF gc.num_deployment_zones = 1
            /\ Len(chromosome) < Len(gc.platform_types) + 2 THEN "IndexError"
    ELSE "none"

\* decode_chromosome on a chromosome that decodes.
decode_chromosome(chromosome, gc) ==
    LET n == Len(gc.platform_types)
        start_idx == n
        zones == gc.num_deployment_zones
        task_start_idx == start_idx + zones * 2
        counts == [i \in 1..n |-> chromosome[i]]
        tasks == {i \in 0..(Len(gc.task_types) - 1) :
                     task_start_idx + i < Len(chromosome)}
    IN  [platform_inventory |->
             [i \in 1..n |-> [type |-> gc.platform_types[i], count |-> counts[i]]],
         deployment_plan |->
             IF zones = 1
             THEN [has_primary_sector |-> TRUE,
                   coordinates |-> <<chromosome[start_idx + 1],
                                     chromosome[start_idx + 2]>>]
             ELSE [has_primary_sector |-> FALSE, coordinates |-> <<0, 0>>],
         task_assignments |->
             [i \in 1..Cardinality(tasks) |-> chromosome[task_start_idx + i]],
         total_platforms |-> SumSeq(counts)]

\* cost_per_platform of the platform type (lines 183-194), in tenths
CostPer(type) ==
    CASE type = "patrol_usv" -> 25
      [] type = "attack_uuv" -> 50
      [] OTHER -> 25

\* validate_constraints.  A constraints record whose deployment_bounds lack a
\* key makes line 212 raise KeyError, which line 235 catches.
validate_constraints(configuration, cons) ==
    LET inventory == configuration.platform_inventory
        total_platforms == SumSeq([i \in DOMAIN inventory |-> inventory[i].count])
        few == IF total_platforms < cons.min_platforms
               THEN <<"Too few platforms">> ELSE <<>>
        many == IF total_platforms > cons.max_platforms
                THEN <<"Many platforms">> ELSE <<>>
        estimated_cost ==
            IF cons.has_budget
            THEN SumSeq([i \in DOMAIN inventory |->
                            inventory[i].count * CostPer(inventory[i].type)])
            ELSE total_platforms * 25
        budget == IF estimated_cost > cons.max_budget
                  THEN <<"Budget exceeded">> ELSE <<>>
        plan == configuration.deployment_plan
        bounds == cons.deployment_bounds
        x == plan.coordinates[1]
        y == plan.coordinates[2]
        total_assigned == SumSeq(configuration.task_assignments)
    IN  IF plan.has_primary_sector /\ ~bounds.complete
        THEN [valid |-> FALSE,
              violations |-> few \o <<"Validation error">>,
              warnings |-> many \o budget]
        ELSE
          LET outX == IF plan.has_primary_sector
                         /\ ~(bounds.min_x <= x /\ x <= bounds.max_x)
                      THEN <<"X coordinate out of bounds">> ELSE <<>>
              outY == IF plan.has_primary_sector
                         /\ ~(bounds.min_y <= y /\ y <= bounds.max_y)
                      THEN <<"Y coordinate out of bounds">> ELSE <<>>
              high == IF 2 * total_assigned > 3 * total_platforms
                      THEN <<"High task allocation">> ELSE <<>>
              none == IF total_assigned = 0
                      THEN <<"No platforms assigned to tasks">> ELSE <<>>
              low == IF total_assigned # 0
                        /\ 10 * total_assigned < 3 * total_platforms
                     THEN <<"Low task allocation">> ELSE <<>>
              violations == few \o outX \o outY \o none
          IN  [valid |-> violations = <<>>,
               violations |-> violations,
               warnings |-> many \o budget \o high \o low]

\* A bug of the handler of line 294: the exception let through.
ExceptionLetThrough(e) == [raised |-> e, fitness |-> LowFitness, printed |-> TRUE]

\* Lines 294-297: the handler of every Exception prints a warning and
\* returns 0.001.
ExceptionHandled(e) == [raised |-> "none", fitness |-> LowFitness, printed |-> TRUE]

\* fitness_function: the fitness returned (or the exception raised), and
\* whether the failure warning was printed.
fitness_function(chromosome, gc, cons, outcome) ==
    IF DecodeRaises(chromosome, gc) # "none" THEN ExceptionHandled("GAError")
    ELSE
      LET configuration == decode_chromosome(chromosome, gc)
          constraint_result == validate_constraints(configuration, cons)
      IN  IF ~constraint_result.valid
          THEN [raised |-> "none", fitness |-> LowFitness, printed |-> FALSE]
          ELSE IF outcome.raised # "none" THEN ExceptionHandled(outcome.raised)
          ELSE LET penalty == WarningPenalty * Len(constraint_result.warnings)
               IN  [raised |-> "none",
                    fitness |-> Max(LowFitness, outcome.ci_score - penalty),
                    printed |-> FALSE]

\* Inputs: gene layout <<patrol count, attack count, x, y, task, task, task>>
PlatformTypes == <<"patrol_usv", "attack_uuv">>
TaskTypes == <<"surveillance", "anti_submarine", "mine_countermeasures">>

GeneConfigs ==
    {[has_platform_types |-> h, platform_types |-> PlatformTypes,
      num_deployment_zones |-> z, task_types |-> TaskTypes] :
        h \in BOOLEAN, z \in {1, 2}}

DefaultBounds ==
    [complete |-> TRUE, min_x |-> 0, max_x |-> 100, min_y |-> 0, max_y |-> 100]

ConstraintSets ==
    {[min_platforms |-> 1, max_platforms |-> 30, has_budget |-> b,
      max_budget |-> 1000, deployment_bounds |-> d] :
        b \in BOOLEAN,
        d \in {DefaultBounds, [DefaultBounds EXCEPT !.complete = FALSE]}}

FullChromosomes ==
    {<<c1, c2, x, 50, t, 0, 0>> :
        c1 \in {0, 20}, c2 \in {0, 20}, x \in {50, 120}, t \in {0, 3}}

Chromosomes ==
    {SubSeq(f, 1, k) : f \in FullChromosomes, k \in {1, 3, 5, 7}}

EvaluationOutcomes ==
    {[raised |-> "EvaluationError", ci_score |-> 0],
     [raised |-> "none", ci_score |-> 150],
     [raised |-> "none", ci_score |-> 700]}

InitGa ==
    /\ pc = "ga_run"
    /\ IdleTopsis /\ IdleAhp /\ IdleBatch /\ IdlePrimary /\ IdleFce
    /\ IdleCr /\ IdleEval /\ IdleNorm
    /\ gene_config \in GeneConfigs
    /\ constraints \in ConstraintSets
    /\ solution = NoCall
    /\ evaluation = NoCall
    /\ fitness_values = <<>>
    /\ printed = {}

\* The optimizer calls fitness_function for the next chromosome; an
\* exception out of the call ends the run.
FitnessCall ==
    /\ pc = "ga_run"
    /\ Len(fitness_values) < MaxPopulation
    /\ solution' \in Chromosomes
    /\ evaluation' \in EvaluationOutcomes
    /\ LET solution_idx == Len(fitness_values) + 1
           call == fitness_function(solution', gene_config, constraints,
                                    evaluation')
       IN  /\ printed' = IF call.printed THEN printed \cup {solution_idx}
                         ELSE printed
           /\ IF call.raised # "none"
              THEN pc' = "ga_aborted" /\ UNCHANGED fitness_values
              ELSE /\ pc' = "ga_run"
                   /\ fitness_values' = Append(fitness_values, call.fitness)
    /\ UNCHANGED <<gene_config, constraints>>
    /\ UNCHANGED <<topsisVars, ahpVars, batchVars, primaryVars, fceVars,
                 crVars, evalVars, normVars>>

NextGa == FitnessCall

SpecGa == InitGa /\ [][NextGa]_vars

\* The latest call met an exception in decoding, in constraint validation
\* or in the evaluation pipeline.
LatestCallRaised ==
    /\ solution # NoCall
    /\ \/ DecodeRaises(solution, gene_config) # "none"
       \/ LET configuration == decode_chromosome(solution, gene_config)
          IN  \/ /\ configuration.deployment_plan.has_primary_sector
                 /\ ~constraints.deployment_bounds.complete
              \/ /\ validate_constraints(configuration, constraints).valid
                 /\ evaluation.raised # "none"

\* C9: fitness_function never raises; a call in which decoding, constraint
\* validation or the evaluation pipeline raised returned 0.001, and the run
\* goes on to the next chromosome.
C9_FitnessNeverRaises ==
    /\ pc # "ga_aborted"
    /\ LatestCallRaised =>
          /\ Len(fitness_values) >= 1
          /\ fitness_values[Len(fitness_values)] = LowFitness
    /\ \A k \in printed :
          k <= Len(fitness_values) /\ fitness_values[k] = LowFitness

\* a chromosome that failed to evaluate was followed by one that scored
C9_Witness ==
    /\ LatestCallRaised
    /\ \E k \in printed : \E j \in (k + 1)..Len(fitness_values) :
          fitness_values[j] > LowFitness
    /\ Len(fitness_values) \in printed

(***************************************************************************)
(* modules/ahp_module.py: load_judgment_matrix and                         *)
(* calculate_primary_weights.                                              *)
(*                                                                         *)
(* A file is [loads, matrix]: load_judgment_matrix raises for a file that  *)
(* is missing, unparsable, without a required field or not square, and     *)
(* otherwise gives the square matrix.  Branch cap_idx of the code is       *)
(* branch cap_idx + 1 here; the leaf of indicator s of branch c is the key *)
(* <<c, s>>.  A global weight is on the grid of Precision.                 *)
(***************************************************************************)
NumCapabilities == 5    \* primary_capabilities
NumIndicators == 3      \* indicators of each secondary_mapping entry

Min(x, y) == IF x <= y THEN x ELSE y

RECURSIVE SumOver(_, _)
SumOver(f, keys) ==
    IF keys = {} THEN 0
    ELSE LET k == CHOOSE x \in keys : TRUE
         IN  f[k] + SumOver(f, keys \ {k})

\* Lines 249-255
EmptyResults ==
    [primary_weights |-> <<>>, secondary_weights |-> <<>>,
     global_weights |-> <<>>, errors |-> <<>>]

Leaves(cap) == {<<cap, s>> : s \in 1..NumIndicators}

\* A bug of the handler of line 304: the error of the branch not recorded.
BranchFailureSilent(res, cap, e) == res

\* Lines 304-307: the handler of a branch's exception appends one error
\* entry and goes on with the next branch.
BranchFailure(res, cap, e) ==
    [res EXCEPT !.errors = Append(@, [cap |-> cap, e |-> e])]

\* Lines 285-307: one branch.  The secondary weights are stored before the
\* leaves are computed; primary_weights[cap] and secondary_weights[sec_idx]
\* raise IndexError when the primary matrix has fewer rows than branches or
\* the secondary matrix fewer rows than indicators.
SecondaryBranch(res, cap, file, primary_weights, threshold) ==
    IF ~file.loads THEN BranchFailure(res, cap, "JudgmentMatrixError")
    ELSE Bind(calculate_weights([ndim |-> 2, a |-> file.matrix], TRUE, threshold),
              LAMBDA secondary_result :
        IF secondary_result.raised # "none"
        THEN BranchFailure(res, cap, secondary_result.raised)
        ELSE
          LET secondary_weights == secondary_result.weights
              stored == [res EXCEPT !.secondary_weights =
                            (cap :> secondary_weights) @@ @]
          IN  IF cap > Len(primary_weights)
              THEN BranchFailure(stored, cap, "IndexError")
              ELSE
                LET primary_weight == primary_weights[cap]
                    n == Min(Len(secondary_weights), NumIndicators)
                    leaves ==
                        [k \in {<<cap, sec>> : sec \in 1..n} |->
                            (primary_weight * secondary_weights[k[2]])
                                \div Precision]
                    composed == [stored EXCEPT !.global_weights = leaves @@ @]
                IN  IF Len(secondary_weights) < NumIndicators
                    THEN BranchFailure(composed, cap, "IndexError")
                    ELSE composed)

\* A bug of the composition: the leaf products returned as they are.
NormalizeGlobalSkipped(gw) == gw

\* Lines 311-314: v / total_weight; a zero total gives non-finite weights.
NormalizeGlobal(gw) ==
    IF DOMAIN gw = {} THEN gw
    ELSE LET total_weight == SumOver(gw, DOMAIN gw)
         IN  [k \in DOMAIN gw |->
                 IF total_weight = 0 THEN Inf
                 ELSE (gw[k] * Precision) \div total_weight]

\* Judgment matrices of the files
Uniform(n) == [i \in 1..n |-> [j \in 1..n |-> EntryUnit]]
FirstDouble(n) ==
    [i \in 1..n |-> [j \in 1..n |->
        IF i = j THEN EntryUnit
        ELSE IF i = 1 THEN 2 * EntryUnit
        ELSE IF j = 1 THEN EntryUnit \div 2
        ELSE EntryUnit]]
Circular ==
    <<<<EntryUnit, MaxRatio * EntryUnit, EntryUnit \div MaxRatio>>,
      <<EntryUnit \div MaxRatio, EntryUnit, MaxRatio * EntryUnit>>,
      <<MaxRatio * EntryUnit, EntryUnit \div MaxRatio, EntryUnit>>>>
NotReciprocal ==
    <<<<EntryUnit, 2 * EntryUnit, EntryUnit>>,
      <<2 * EntryUnit, EntryUnit, EntryUnit>>,
      <<EntryUnit, EntryUnit, EntryUnit>>>>

Unloadable == [loads |-> FALSE, matrix |-> Uniform(1)]
File(matrix) == [loads |-> TRUE, matrix |-> matrix]

PrimaryFiles ==
    {Unloadable, File(Uniform(NumCapabilities)), File(FirstDouble(NumCapabilities)),
     File(FirstDouble(NumIndicators)), File(Circular)}

SecondaryFiles ==
    {Unloadable, File(FirstDouble(NumIndicators)), File(Circular),
     File(NotReciprocal), File(FirstDouble(2))}

InitPrimary ==
    /\ pc = "calculate_primary_weights"
    /\ IdleTopsis /\ IdleBatch /\ IdleGa /\ IdleFce /\ IdleCr /\ IdleEval /\ IdleNorm
    /\ judgment_matrix = NoCall /\ validate_consistency = NoCall
    /\ ahp_result = NoResult /\ validation_report = NoResult
    /\ cr_threshold = Resolution \div 10
    /\ primary_file \in PrimaryFiles
    /\ secondary_files \in [1..NumCapabilities -> SecondaryFiles]
    /\ cap_idx = 0
    /\ primary_result = NoResult
    /\ results = EmptyResults
    /\ weights_result = NoResult

\* Lines 257-280: the primary matrix.  Any exception here reaches the
\* handler of line 316, which raises JudgmentMatrixError.
PrimaryMatrix ==
    /\ pc = "calculate_primary_weights"
    /\ primary_result' =
          IF ~primary_file.loads THEN [raised |-> "JudgmentMatrixError"]
          ELSE calculate_weights([ndim |-> 2, a |-> primary_file.matrix],
                                 TRUE, cr_threshold)
    /\ IF primary_result'.raised # "none"
       THEN pc' = "raised" /\ UNCHANGED <<results, cap_idx>>
       ELSE /\ pc' = "branches"
            /\ cap_idx' = 1
            /\ results' = [results EXCEPT
                              !.primary_weights = primary_result'.weights]
    /\ UNCHANGED <<primary_file, secondary_files, weights_result>>
    /\ UNCHANGED <<topsisVars, ahpVars, batchVars, gaVars, fceVars,
                 crVars, evalVars, normVars>>

\* Lines 282-307: one turn of the loop over the branches.
ProcessBranch ==
    /\ pc = "branches"
    /\ cap_idx <= NumCapabilities
    /\ results' = SecondaryBranch(results, cap_idx, secondary_files[cap_idx],
                                  primary_result.weights, cr_threshold)
    /\ cap_idx' = cap_idx + 1
    /\ UNCHANGED <<pc, primary_file, secondary_files, primary_result,
                   weights_result>>
    /\ UNCHANGED <<topsisVars, ahpVars, batchVars, gaVars, fceVars,
                 crVars, evalVars, normVars>>

\* Lines 309-319: the global weights normalised, and the return.
ReturnResults ==
    /\ pc = "branches"
    /\ cap_idx > NumCapabilities
    /\ pc' = "returned"
    /\ results' = [results EXCEPT !.global_weights = NormalizeGlobal(@)]
    /\ UNCHANGED <<cap_idx, primary_file, secondary_files, primary_result,
                   weights_result>>
    /\ UNCHANGED <<topsisVars, ahpVars, batchVars, gaVars, fceVars,
                 crVars, evalVars, normVars>>

\* A bug of the caller: the errors of the branches not looked at.
AhpErrorsIgnored(res) == FALSE

\* modules/evaluator.py line 309: weights_result.get('errors') is truthy.
AhpErrors(res) == res.errors # <<>>

\* modules/evaluator.py lines 297-313, _calculate_ahp_weights after
\* calculate_primary_weights raised (raised = TRUE) or returned res: every
\* exception, the one of line 310 included, leaves as EvaluationError.
_calculate_ahp_weights(raised, res) ==
    IF raised THEN [raised |-> "EvaluationError"]
    ELSE IF AhpErrors(res) THEN [raised |-> "EvaluationError"]
    ELSE [raised |-> "none", global_weights |-> res.global_weights]

\* modules/evaluator.py lines 78-80 and 126-132: evaluate_single_scheme takes
\* the global weights of _calculate_ahp_weights, or raises EvaluationError.
CalculateAhpWeights ==
    /\ pc \in {"raised", "returned"}
    /\ pc' = "weights_done"
    /\ weights_result' = _calculate_ahp_weights(pc = "raised", results)
    /\ UNCHANGED <<cap_idx, primary_file, secondary_files, primary_result,
                   results>>
    /\ UNCHANGED <<topsisVars, ahpVars, batchVars, gaVars, fceVars,
                 crVars, evalVars, normVars>>

NextPrimary ==
    PrimaryMatrix \/ ProcessBranch \/ ReturnResults \/ CalculateAhpWeights

SpecPrimary == InitPrimary /\ [][NextPrimary]_vars

\* Loading or solving the second-level matrix of branch cap fails.
BranchFails(cap) ==
    \/ ~secondary_files[cap].loads
    \/ calculate_weights([ndim |-> 2, a |-> secondary_files[cap].matrix],
                         TRUE, cr_threshold).raised # "none"

ErrorsOf(cap) ==
    Cardinality({k \in DOMAIN results.errors : results.errors[k].cap = cap})

GlobalSum == SumOver(results.global_weights, DOMAIN results.global_weights)
GlobalTolerance == NumCapabilities * NumIndicators
SumsToOne == Abs(GlobalSum - Precision) <= GlobalTolerance

BreaksInputRequirement ==
    IF decision_matrix.ndim # 2 THEN TRUE
    ELSE LET m == Len(decision_matrix.a)
             n == Len(decision_matrix.a[1])
         IN  \/ m < 2
             \/ n < 2
             \/ \E i \in 1..m : \E j \in 1..n : decision_matrix.a[i][j] < 0
             \/ weights.ndim # 1
             \/ Len(weights.a) # n
             \/ \E j \in DOMAIN weights.a :
                    ~(weights.a[j] # NaN /\ weights.a[j] > 0)
             \/ HasNaN(weights.a)
             \/ SumSeq(weights.a) # WeightUnit
             \/ Len(indicator_types) # n
             \/ \E j \in DOMAIN indicator_types :
                    indicator_types[j] \notin ValidTypes

\* C12: with validate_input enabled, every call whose input breaks one of
\* the input requirements (matrix shape or sign, weight shape, sign, length
\* or sum, indicator type length or value) raises DataValidationError and
\* returns no result.
C12_InvalidInputRaises ==
    (pc = "done" /\ validate_input = TRUE /\ BreaksInputRequirement)
        => topsis_result.raised = "DataValidationError"


\* The denominator of step 5 is below 1e-15 for alternative i.
ZeroDenominator(i) ==
    /\ topsis_result.D_plus[i] # NaN /\ topsis_result.D_minus[i] # NaN
    /\ topsis_result.D_plus[i] + topsis_result.D_minus[i] < 1

AllIdentical ==
    /\ decision_matrix.ndim = 2
    /\ \A i \in DOMAIN decision_matrix.a : decision_matrix.a[i] = decision_matrix.a[1]

\* C13: a call on identical alternatives does not raise, and wherever the
\* denominator D_plus[i] + D_minus[i] is below 1e-15 the result has
\* Ci[i] = 0.5 and still holds a rank in 1..m for every one of the m
\* alternatives.
C13_ZeroDenominatorGivesHalf ==
    /\ (pc = "done" /\ InputAccepted /\ AllIdentical) => Returned
    /\ Returned =>
          \A i \in Alts :
              ZeroDenominator(i) =>
                  /\ topsis_result.Ci[i] = Resolution \div 2
                  /\ Len(topsis_result.rankings) = Len(decision_matrix.a)
                  /\ \A k \in DOMAIN decision_matrix.a :
                         topsis_result.rankings[k] \in 1..Len(decision_matrix.a)

C13_Witness ==
    /\ Returned /\ InputAccepted /\ AllIdentical
    /\ \A i \in Alts : ZeroDenominator(i) /\ topsis_result.Ci[i] = Resolution \div 2


(***************************************************************************)
(* modules/fce_module.py: fuzzy_evaluate.                                  *)
(*                                                                         *)
(* A mapping (dict) is a function from the set of its keys.  Scale values  *)
(* and fuzzy scores are on the Resolution grid, membership degrees on the  *)
(* Precision grid.  The four terms stand for the source's literals, from   *)
(* worst to best: Poor, Medium, Good, Excellent.                           *)
(***************************************************************************)
MaxCount == 2           \* most experts giving one term

linguistic_terms == <<"poor", "medium", "good", "excellent">>

tolerance == Precision \div 10 ^ 3      \* default tolerance: 0.001

\* dict.get(key, default)
Get(mapping, key, default) ==
    IF key \in DOMAIN mapping THEN mapping[key] ELSE default

\* A validation bug: negative counts are let through.
NegativeCountIgnored(assessment_counts) == FALSE

\* The check "count < 0" of the loop over the terms.
NegativeCount(assessment_counts) ==
    \E k \in DOMAIN assessment_counts : assessment_counts[k] < 0

\* A defuzzification bug: the counts are not normalised by the total.
FuzzyScoreOfCounts(assessment_counts, score_values, total_experts) ==
    SumSeq([k \in DOMAIN assessment_counts |->
                assessment_counts[k] * score_values[k]])

\* A defuzzification bug: every term is given one extra vote.
FuzzyScoreSmoothed(assessment_counts, score_values, total_experts) ==
    SumSeq([k \in DOMAIN assessment_counts |->
                (assessment_counts[k] + 1) * score_values[k]])
        \div (total_experts + Len(assessment_counts))

\* np.dot(membership_vector, score_values), with membership_vector =
\* assessment_counts / total_experts: the division is exact to far below
\* one step of the grid, so the quotient is taken once, at the end.
FuzzyScore(assessment_counts, score_values, total_experts) ==
    SumSeq([k \in DOMAIN assessment_counts |->
                assessment_counts[k] * score_values[k]]) \div total_experts

fuzzy_evaluate(assessments, scale, validate) ==
    IF DOMAIN assessments = {} THEN [raised |-> "FCEError"]
    ELSE IF DOMAIN scale = {} THEN [raised |-> "FCEError"]
    ELSE LET assessment_counts ==
                 [k \in DOMAIN linguistic_terms |->
                      Get(assessments, linguistic_terms[k], 0)]
             score_values ==
                 [k \in DOMAIN linguistic_terms |->
                      Get(scale, linguistic_terms[k], 0)]
             total_experts == SumSeq(assessment_counts)
         IN  IF NegativeCount(assessment_counts) THEN [raised |-> "FCEError"]
             ELSE IF total_experts = 0 THEN [raised |-> "FCEError"]
             ELSE LET membership_vector ==
                          [k \in DOMAIN linguistic_terms |->
                               (assessment_counts[k] * Precision) \div total_experts]
                      membership_sum == SumSeq(membership_vector)
                  IN  IF validate /\ Abs(membership_sum - Precision) > tolerance
                      THEN [raised |-> "MembershipError"]
                      ELSE [raised |-> "none",
                            membership_vector |-> membership_vector,
                            fuzzy_score |-> FuzzyScore(assessment_counts,
                                                score_values, total_experts),
                            total_experts |-> total_experts,
                            valid |-> Abs(membership_sum - Precision) <= tolerance,
                            assessment_distribution |-> assessment_counts,
                            score_values |-> score_values]

(***************************************************************************)
(* Inputs of a fuzzy_evaluate call.                                        *)
(***************************************************************************)
Terms == Range(linguistic_terms)
CountLevels == -1..MaxCount
ScaleLevels == {Resolution \div 4, Resolution \div 2, Resolution}

\* Counts for any of the four terms, the empty mapping included.
Assessments == UNION {[S -> CountLevels] : S \in SUBSET Terms}

\* A scale gives every term a value; the empty scale is the invalid one.
Scales == [Terms -> ScaleLevels] \cup {<<>>}

InitFce ==
    /\ pc = "fuzzy_evaluate"
    /\ IdleTopsis /\ IdleAhp /\ IdleBatch /\ IdleGa /\ IdlePrimary
    /\ IdleCr /\ IdleEval /\ IdleNorm
    /\ expert_assessments \in Assessments
    /\ fuzzy_scale \in Scales
    /\ validate_membership \in BOOLEAN
    /\ fce_result = NoResult

\* One call of fuzzy_evaluate.
FuzzyEvaluate ==
    /\ pc = "fuzzy_evaluate"
    /\ pc' = "done"
    /\ fce_result' = fuzzy_evaluate(expert_assessments, fuzzy_scale,
                                    validate_membership)
    /\ UNCHANGED <<expert_assessments, fuzzy_scale, validate_membership>>
    /\ UNCHANGED <<topsisVars, ahpVars, batchVars, gaVars, primaryVars,
                 crVars, evalVars, normVars>>

NextFce == FuzzyEvaluate

SpecFce == InitFce /\ [][NextFce]_vars

(***************************************************************************)
(* Claims about fuzzy_evaluate, checked under SpecFce.                     *)
(***************************************************************************)
FceReturned == pc = "done" /\ fce_result.raised = "none"

\* The sum of the counts of a mapping
TotalCount == SumOver(expert_assessments, DOMAIN expert_assessments)

SomeCountNegative ==
    \E term \in DOMAIN expert_assessments : expert_assessments[term] < 0

\* C14: fuzzy_evaluate raises an FCE error whenever the counts mapping is
\* empty, the scale mapping is empty, the total count is 0, or some count of
\* the counts mapping is negative.
C14_InvalidAssessmentRaises ==
    (/\ pc = "done"
     /\ \/ DOMAIN expert_assessments = {}
        \/ DOMAIN fuzzy_scale = {}
        \/ TotalCount = 0
        \/ SomeCountNegative)
        => fce_result.raised = "FCEError"

C14_Witness ==
    /\ pc = "done"
    /\ DOMAIN fuzzy_scale # {}
    /\ TotalCount > 0
    /\ SomeCountNegative
    /\ fce_result.raised = "FCEError"

ScaleValues == {fuzzy_scale[term] : term \in DOMAIN fuzzy_scale}
MinScale == CHOOSE v \in ScaleValues : \A u \in ScaleValues : v <= u
MaxScale == CHOOSE v \in ScaleValues : \A u \in ScaleValues : v >= u

AllCountsOn(term) ==
    /\ term \in DOMAIN expert_assessments
    /\ expert_assessments[term] > 0
    /\ \A other \in DOMAIN expert_assessments \ {term} :
           expert_assessments[other] = 0

\* C16: if all counts fall on a single term of the scale, the fuzzy_score
\* returned equals exactly that term's scale value.
C16_SingleTermScoreIsScaleValue ==
    \A term \in Terms :
        (FceReturned /\ AllCountsOn(term))
            => fce_result.fuzzy_score = fuzzy_scale[term]

C16_Witness ==
    /\ FceReturned
    /\ \E term \in Terms :
          /\ AllCountsOn(term)
          /\ expert_assessments[term] > 1
          /\ fuzzy_scale[term] # MaxScale
          /\ fce_result.fuzzy_score = fuzzy_scale[term]


(***************************************************************************)
(* The consistency metrics of a judgment matrix, as calculate_weights      *)
(* (modules/ahp_module.py, lines 86-95) and as calculate_cr                *)
(* (utils/consistency_check.py) compute them.  Both take n and the         *)
(* dominant eigenvalue of the matrix from np.linalg.eig; here the matrix   *)
(* is given by these two numbers, lambda_max on the Resolution grid.       *)
(***************************************************************************)
MaxSize == 16           \* largest judgment matrix

\* RANDOM_INDEX_TABLE.get(n, RANDOM_INDEX_TABLE[15]), in hundredths
RANDOM_INDEX_TABLE(n) ==
    CASE n = 1 -> 0    [] n = 2 -> 0    [] n = 3 -> 58   [] n = 4 -> 90
      [] n = 5 -> 112  [] n = 6 -> 124  [] n = 7 -> 132  [] n = 8 -> 141
      [] n = 9 -> 145  [] n = 10 -> 149 [] n = 11 -> 151 [] n = 12 -> 148
      [] n = 13 -> 156 [] n = 14 -> 157 [] OTHER -> 159

\* calculate_cr: the record returned, or the exception raised.  The
\* threshold 0.1 is fixed.
calculate_cr(is_valid, lambda_max, n) ==
    IF ~is_valid THEN [raised |-> "ValueError"]
    ELSE LET CI == IF n = 1 THEN 0
                   ELSE (lambda_max - n * Resolution) \div (n - 1)
             RI == RANDOM_INDEX_TABLE(n)
             CR == IF RI > 0 THEN (CI * 100) \div RI ELSE 0
         IN  IF CR >= Resolution \div 10
             THEN [raised |-> "AHPConsistencyError"]
             ELSE [raised |-> "none", CR |-> CR, CI |-> CI,
                   lambda_max |-> lambda_max, RI |-> RI, n |-> n]

\* How far the dominant eigenvalue of a positive matrix lies above n
EigenvalueExcess == {0, Resolution \div 4, Resolution \div 2, Resolution,
                     2 * Resolution, 4 * Resolution}

InitCr ==
    /\ pc = "calculate_weights_metrics"
    /\ IdleTopsis /\ IdleAhp /\ IdleBatch /\ IdleGa /\ IdlePrimary /\ IdleFce
    /\ IdleEval /\ IdleNorm
    /\ matrix_size \in 1..MaxSize
    /\ max_eigenvalue \in {matrix_size * Resolution + e :
                             e \in IF matrix_size = 1 THEN {0}
                                   ELSE EigenvalueExcess}
    /\ matrix_is_valid \in BOOLEAN
    /\ consistency_metrics = NoResult
    /\ cr_result = NoResult

\* Lines 86-95 of calculate_weights.
CalculateWeightsMetrics ==
    /\ pc = "calculate_weights_metrics"
    /\ pc' = "calculate_cr"
    /\ consistency_metrics' = ConsistencyMetrics(max_eigenvalue, matrix_size)
    /\ UNCHANGED <<matrix_size, max_eigenvalue, matrix_is_valid, cr_result>>
    /\ UNCHANGED <<topsisVars, ahpVars, batchVars, gaVars, primaryVars, fceVars,
                   evalVars, normVars>>

\* One call of calculate_cr on the same matrix.
CalculateCr ==
    /\ pc = "calculate_cr"
    /\ pc' = "done"
    /\ cr_result' = calculate_cr(matrix_is_valid, max_eigenvalue, matrix_size)
    /\ UNCHANGED <<matrix_size, max_eigenvalue, matrix_is_valid,
                   consistency_metrics>>
    /\ UNCHANGED <<topsisVars, ahpVars, batchVars, gaVars, primaryVars, fceVars,
                   evalVars, normVars>>

NextCr == CalculateWeightsMetrics \/ CalculateCr

SpecCr == InitCr /\ [][NextCr]_vars

\* C17: the Random Index used to compute CR for an n x n matrix is 0.00,
\* 0.00, 0.58, 0.90, 1.12, 1.24, 1.32, 1.41, 1.45, 1.49 for n = 1..10 and
\* 1.59 for every n > 10, in calculate_weights and in calculate_cr.
C17_RandomIndexIsTableValue ==
    pc = "done" =>
        LET RI == IF matrix_size <= 10
                  THEN <<0, 0, 58, 90, 112, 124, 132, 141, 145, 149>>[matrix_size]
                  ELSE 159
        IN  /\ consistency_metrics.CR =
                   IF RI > 0 THEN (consistency_metrics.CI * 100) \div RI ELSE 0
            /\ cr_result.raised = "none" => cr_result.RI = RI


(***************************************************************************)
(* Properties of validate_judgment_matrix, under SpecAhp.                  *)
(***************************************************************************)
ReportFields == {"is_square", "positive_elements", "diagonal_ones",
                 "reciprocal_property", "is_valid", "error_messages"}

\* The matrix of the call is not 2-D, not square, not positive, without a
\* unit diagonal or not reciprocal.
FailsSomeCheck ==
    \/ judgment_matrix.ndim # 2
    \/ NumRows(judgment_matrix) # NumCols(judgment_matrix)
    \/ \E i, j \in 1..NumRows(judgment_matrix) :
          \/ judgment_matrix.a[i][j] <= 0
          \/ i = j /\ judgment_matrix.a[i][j] # EntryUnit
          \/ judgment_matrix.a[i][j] = Inf
          \/ judgment_matrix.a[j][i] = Inf
          \/ judgment_matrix.a[i][j] * judgment_matrix.a[j][i]
                 # EntryUnit * EntryUnit

\* C18: validate_judgment_matrix never raises: for every numeric matrix,
\* non-2-D, non-square, non-positive, non-unit-diagonal and non-reciprocal
\* ones included, it returns the structured report, with is_valid = False
\* whenever one of the four checks fails.
C18_ValidationReportsWithoutRaising ==
    pc = "validated" =>
        /\ DOMAIN validation_report = ReportFields
        /\ FailsSomeCheck => ~validation_report.is_valid
        /\ validation_report.is_valid =>
              /\ validation_report.is_square
              /\ validation_report.positive_elements
              /\ validation_report.diagonal_ones
              /\ validation_report.reciprocal_property

C18_Witness ==
    /\ pc = "validated"
    /\ judgment_matrix.ndim = 2
    /\ NumRows(judgment_matrix) # NumCols(judgment_matrix)
    /\ DOMAIN validation_report = ReportFields
    /\ ~validation_report.is_valid


(***************************************************************************)
(* calculate_weights on the identity matrix np.eye(n), under SpecAhp.      *)
(***************************************************************************)
\* judgment_matrix is np.eye(n) for some n >= 1
IsIdentity ==
    /\ judgment_matrix.ndim = 2
    /\ NumRows(judgment_matrix) >= 1
    /\ NumRows(judgment_matrix) = NumCols(judgment_matrix)
    /\ \A i, j \in 1..NumRows(judgment_matrix) :
          judgment_matrix.a[i][j] = IF i = j THEN EntryUnit ELSE 0

\* calculate_weights was called with its default options
DefaultOptions == validate_consistency = TRUE /\ cr_threshold = Resolution \div 10

\* C19: for the identity matrix of any size n, calculate_weights returns a
\* result with CR = 0 and every weight equal to 1/n.
C19_IdentityGivesEqualWeights ==
    (AhpCalled /\ IsIdentity /\ DefaultOptions) =>
        /\ ahp_result.raised = "none"
        /\ ahp_result.CR = 0
        /\ \A i \in 1..NumRows(judgment_matrix) :
              Abs(ahp_result.weights[i] - Precision \div NumRows(judgment_matrix)) <= 1


\* The matrix of the call is non-empty, finite and passes the four checks.
StructurallyValid ==
    /\ NonEmptyFinite
    /\ validate_judgment_matrix(judgment_matrix).is_valid

\* C20: for every structurally valid judgment matrix of size n whose CR is
\* below the threshold, calculate_weights returns exactly n weights, all
\* strictly positive, that sum to 1.0 (here: to within one grid step per
\* weight).
C20_ValidMatrixGivesNormalizedWeights ==
    (AhpCalled /\ StructurallyValid /\ ComputedCR < cr_threshold) =>
        /\ ahp_result.raised = "none"
        /\ Len(ahp_result.weights) = NumRows(judgment_matrix)
        /\ \A i \in DOMAIN ahp_result.weights : ahp_result.weights[i] > 0
        /\ Abs(SumSeq(ahp_result.weights) - Precision)
               <= NumRows(judgment_matrix)

C20_Witness ==
    /\ AhpCalled /\ StructurallyValid /\ ComputedCR < cr_threshold
    /\ validate_consistency
    /\ NumRows(judgment_matrix) = 3
    /\ ComputedCR > 0
    /\ ahp_result.raised = "none"
    /\ ahp_result.weights[1] # ahp_result.weights[2]

(***************************************************************************)
(* Properties of validate_constraints, under SpecGa.                       *)
(***************************************************************************)
\* The latest chromosome decoded, so that validate_constraints was called.
ConstraintsValidated ==
    solution # NoCall /\ DecodeRaises(solution, gene_config) = "none"

\* What validate_constraints returned in the latest call.
ConstraintResult ==
    validate_constraints(decode_chromosome(solution, gene_config), constraints)

TooManyPlatforms ==
    decode_chromosome(solution, gene_config).total_platforms
        > constraints.max_platforms

\* C21: whenever the total platform count of the configuration exceeds the
\* configured maximum, validate_constraints returns valid = False with at
\* least one violation.
C21_TooManyPlatformsInvalid ==
    (ConstraintsValidated /\ TooManyPlatforms) =>
        /\ ~ConstraintResult.valid
        /\ ConstraintResult.violations # <<>>

\* C22: in one evaluate_batch call the AHP weights are solved and composed
\* exactly once for the whole batch, never once per scheme.
C22_WeightsSolvedOncePerBatch ==
    BatchReturned => ahp_weight_runs = 1

AhpReturned == pc = "done" /\ ahp_result.raised = "none"

\* C23: the 'valid' field of the result calculate_weights returns is True
\* exactly when the computed CR is below cr_threshold.
C23_ValidIffCrBelowThreshold ==
    AhpReturned => (ahp_result.valid <=> ahp_result.CR < cr_threshold)

\* Loading or solving the top-level matrix fails.
PrimaryFails ==
    \/ ~primary_file.loads
    \/ calculate_weights([ndim |-> 2, a |-> primary_file.matrix],
                         TRUE, cr_threshold).raised # "none"

AllLeaves == UNION {Leaves(cap) : cap \in 1..NumCapabilities}

\* C27: evaluate_single_scheme never gets global weights when the top-level
\* matrix or the second-level matrix of any branch failed to load or failed
\* the structural or the consistency validation: EvaluationError is raised,
\* and the global weights an evaluation goes on with hold all 15 leaves.
C27_FailedMatrixStopsEvaluation ==
    pc = "weights_done" =>
        /\ (PrimaryFails \/ \E cap \in 1..NumCapabilities : BranchFails(cap))
              => weights_result.raised = "EvaluationError"
        /\ weights_result.raised = "none"
              => DOMAIN weights_result.global_weights = AllLeaves

\* the primary matrix is solved, one branch fails the consistency check and
\* the other branches gave their leaves
C27_Witness ==
    /\ pc = "weights_done"
    /\ ~PrimaryFails
    /\ \E cap \in 1..NumCapabilities :
          /\ secondary_files[cap] = File(Circular)
          /\ \A other \in (1..NumCapabilities) \ {cap} :
                Leaves(other) \subseteq DOMAIN results.global_weights
    /\ weights_result.raised = "EvaluationError"

(***************************************************************************)
(* modules/evaluator.py: evaluate_single_scheme.                           *)
(*                                                                         *)
(* scheme_data is what the steps of the pipeline read of the scheme: what  *)
(* validate_scheme_config says of it and the combined indicator values of  *)
(* steps 4-6.  indicator_config is its 'secondary_indicators' entry,       *)
(* fuzzy_config its 'fuzzy_scale' entry, expert_judgments whether any were *)
(* given and what _calculate_ahp_weights makes of them.  The decision      *)
(* matrix of step 7 has the baseline in row 1 and the scheme in row 2.     *)
(***************************************************************************)
ExpectedIndicators == 15

\* _validate_inputs: the exception raised, or "none".
_validate_inputs(scheme, indicators, fuzzy, judgments) ==
    IF ~scheme.is_valid THEN "ConfigurationError"
    ELSE IF ~indicators.has_secondary_indicators THEN "ConfigurationError"
    ELSE IF indicators.secondary_indicators # ExpectedIndicators
        THEN "ConfigurationError"
    ELSE IF ~fuzzy.has_fuzzy_scale THEN "ConfigurationError"
    ELSE IF ~judgments.given THEN "ConfigurationError"
    ELSE "none"

\* Lines 126-132: every exception of the body leaves as EvaluationError.
EvaluationFailed(e) == [raised |-> "EvaluationError"]

\* _prepare_topsis_input: the baseline values, then the scheme's.
BaselineRow == <<1, 1>>
_prepare_topsis_input(combined_values) ==
    [ndim |-> 2, a |-> <<BaselineRow, combined_values>>]

\* _apply_topsis: benefit indicators, but for the cost indicators of line 613.
SingleSchemeTypes == <<"benefit", "cost">>

\* _generate_evaluation_result, lines 657-683.
_generate_evaluation_result(combined_values, topsis) ==
    LET ci_score == topsis.Ci[2]
        raw_rank == topsis.rankings[2]
    IN  [raised |-> "none",
         ci_score |-> ci_score,
         rank |-> 1,
         indicator_values |-> combined_values,
         evaluation_metadata |->
             [validation_passed |-> topsis.validation.valid,
              baseline_comparison_rank |-> raw_rank,
              baseline_ci_score |-> topsis.Ci[1],
              performance_vs_baseline |->
                  IF raw_rank = 1 THEN "better" ELSE "worse"]]

SchemeData == [is_valid : BOOLEAN, combined_values : Rows]
IndicatorConfigs ==
    {[has_secondary_indicators |-> FALSE, secondary_indicators |-> 0]}
    \cup {[has_secondary_indicators |-> TRUE, secondary_indicators |-> k] :
             k \in (ExpectedIndicators - 1)..(ExpectedIndicators + 1)}
FuzzyConfigs == [has_fuzzy_scale : BOOLEAN]
ExpertJudgments ==
    [given : BOOLEAN, ahp_raises : BOOLEAN, global_weights : WeightVectors]

InitEval ==
    /\ pc = "evaluate_single_scheme"
    /\ IdleTopsis /\ IdleAhp /\ IdleBatch /\ IdleGa /\ IdlePrimary /\ IdleFce
    /\ IdleCr /\ IdleNorm
    /\ scheme_data \in SchemeData
    /\ indicator_config \in IndicatorConfigs
    /\ fuzzy_config \in FuzzyConfigs
    /\ expert_judgments \in ExpertJudgments
    /\ evaluation_result = NoResult

\* Lines 63-132: the whole call.
EvaluateSingleScheme ==
    /\ pc = "evaluate_single_scheme"
    /\ pc' = "done"
    /\ LET invalid == _validate_inputs(scheme_data, indicator_config,
                                       fuzzy_config, expert_judgments)
           topsis_input == _prepare_topsis_input(scheme_data.combined_values)
           weights_array == [ndim |-> 1, a |-> expert_judgments.global_weights]
       IN  IF invalid # "none"
           THEN evaluation_result' = EvaluationFailed(invalid)
           ELSE IF expert_judgments.ahp_raises
           THEN evaluation_result' = EvaluationFailed("EvaluationError")
           ELSE IF TopsisRaises(topsis_input, weights_array,
                                SingleSchemeTypes, TRUE) # "none"
           THEN evaluation_result' = EvaluationFailed("DataValidationError")
           ELSE \E core \in {TopsisCore(topsis_input, weights_array,
                                         SingleSchemeTypes)} :
                \E order \in argsort(core.Ci) :
                \E sorted_ci_indices \in argsort(Neg(core.Ci)) :
                    evaluation_result' =
                        Bind(topsis_rank(core, order, sorted_ci_indices),
                             LAMBDA topsis : _generate_evaluation_result(
                                 scheme_data.combined_values, topsis))
    /\ UNCHANGED <<scheme_data, indicator_config, fuzzy_config,
                   expert_judgments>>
    /\ UNCHANGED <<topsisVars, ahpVars, batchVars, gaVars, primaryVars,
                   fceVars, crVars, normVars>>

NextEval == EvaluateSingleScheme

SpecEval == InitEval /\ [][NextEval]_vars

EvalCalled == evaluation_result.raised # "not called"
EvalReturned == evaluation_result.raised = "none"

InvalidConfiguration ==
    _validate_inputs(scheme_data, indicator_config, fuzzy_config,
                     expert_judgments) = "ConfigurationError"

\* C24: evaluate_single_scheme raises ConfigurationError when the scheme,
\* indicator, fuzzy or expert-judgment configuration is invalid.
C24_InvalidConfigurationRaisesConfigurationError ==
    (EvalCalled /\ InvalidConfiguration)
        => evaluation_result.raised = "ConfigurationError"

\* C28: in a single-scheme evaluation performance_vs_baseline is 'better'
\* exactly when ci_score is strictly greater than baseline_ci_score, and
\* 'worse' otherwise.
C28_BetterIffCiAboveBaseline ==
    EvalReturned =>
        LET metadata == evaluation_result.evaluation_metadata
        IN  /\ metadata.performance_vs_baseline \in {"better", "worse"}
            /\ metadata.performance_vs_baseline = "better"
                  <=> evaluation_result.ci_score > metadata.baseline_ci_score

(***************************************************************************)
(* A caller that holds one set of arguments and calls the core operations  *)
(* on them any number of times, in any order: validate_judgment_matrix,    *)
(* calculate_weights, fuzzy_evaluate, vector_normalize and topsis_rank.    *)
(* Each action leaves in the argument variables what the call leaves in    *)
(* the caller's objects.  None of the modules has module-level state.      *)
(***************************************************************************)
\* utils/normalization.py line 40: 1e-12, as the smallest positive value of
\* the grid of the measurements.
Epsilon == 1

\* A bug of vector_normalize: the substitution of line 42 made in the
\* caller's array (the copy of line 41 left out).
SubstitutedInPlace(a) ==
    [i \in DOMAIN a |-> [j \in DOMAIN a[i] |->
        IF a[i][j] = 0 THEN Epsilon ELSE a[i][j]]]

\* utils/normalization.py lines 38-42: what a call of vector_normalize
\* leaves in the caller's array a.  Line 41 rebinds the parameter to a copy,
\* and line 42 writes into the copy.
ArgumentAfterNormalize(a) == a

CallerMatrices ==
    {[ndim |-> 2, a |-> <<r, s>>] :
        r \in Rows \cup {<<-1, 1>>}, s \in {<<0, 1>>, <<2, 2>>}}

CallerJudgments ==
    {[ndim |-> 2, a |-> a] :
        a \in {Uniform(2), FirstDouble(NumIndicators), Circular, NotReciprocal}}

CallerAssessments ==
    {[t \in Terms |-> 1], [t \in Terms |-> IF t = "good" THEN 2 ELSE 0],
     [t \in {"poor"} |-> -1], <<>>}

InitCalls ==
    /\ pc = "caller"
    /\ IdleBatch /\ IdleGa /\ IdlePrimary /\ IdleCr /\ IdleEval
    /\ decision_matrix \in CallerMatrices
    /\ weights = [ndim |-> 1, a |-> <<3, 7>>]
    /\ indicator_types = <<"benefit", "cost">>
    /\ validate_input = TRUE
    /\ judgment_matrix \in CallerJudgments
    /\ validate_consistency = TRUE
    /\ cr_threshold = Resolution \div 10
    /\ expert_assessments \in CallerAssessments
    /\ fuzzy_scale = [t \in Terms |-> Resolution \div 2]
    /\ validate_membership = TRUE
    /\ topsis_result = NoResult /\ ahp_result = NoResult
    /\ validation_report = NoResult /\ fce_result = NoResult
    /\ normalize_result = NoResult

CallValidateJudgmentMatrix ==
    /\ pc = "caller"
    /\ validation_report' = validate_judgment_matrix(judgment_matrix)
    /\ UNCHANGED <<pc, judgment_matrix, validate_consistency, cr_threshold,
                   ahp_result>>
    /\ UNCHANGED <<topsisVars, batchVars, gaVars, primaryVars, fceVars,
                   crVars, evalVars, normVars>>

CallCalculateWeights ==
    /\ pc = "caller"
    /\ ahp_result' = calculate_weights(judgment_matrix, validate_consistency,
                                       cr_threshold)
    /\ UNCHANGED <<pc, judgment_matrix, validate_consistency, cr_threshold,
                   validation_report>>
    /\ UNCHANGED <<topsisVars, batchVars, gaVars, primaryVars, fceVars,
                   crVars, evalVars, normVars>>

CallFuzzyEvaluate ==
    /\ pc = "caller"
    /\ fce_result' = fuzzy_evaluate(expert_assessments, fuzzy_scale,
                                    validate_membership)
    /\ UNCHANGED <<pc, expert_assessments, fuzzy_scale, validate_membership>>
    /\ UNCHANGED <<topsisVars, ahpVars, batchVars, gaVars, primaryVars,
                   crVars, evalVars, normVars>>

CallVectorNormalize ==
    /\ pc = "caller"
    /\ normalize_result' =
          [raised |-> "none",
           normalized_matrix |-> vector_normalize(decision_matrix.a)]
    /\ decision_matrix' =
          [decision_matrix EXCEPT !.a = ArgumentAfterNormalize(@)]
    /\ UNCHANGED <<pc, weights, indicator_types, validate_input,
                   topsis_result>>
    /\ UNCHANGED <<ahpVars, batchVars, gaVars, primaryVars, fceVars,
                   crVars, evalVars>>

\* topsis_rank calls vector_normalize on its own argument (line 60).
CallTopsisRank ==
    /\ pc = "caller"
    /\ LET raised == TopsisRaises(decision_matrix, weights, indicator_types,
                                  validate_input)
       IN  IF raised # "none"
           THEN /\ topsis_result' = [raised |-> raised]
                /\ UNCHANGED decision_matrix
           ELSE /\ \E core \in {TopsisCore(decision_matrix, weights,
                                            indicator_types)} :
                   \E order \in argsort(core.Ci) :
                   \E sorted_ci_indices \in argsort(Neg(core.Ci)) :
                       topsis_result' =
                           topsis_rank(core, order, sorted_ci_indices)
                /\ decision_matrix' =
                      [decision_matrix EXCEPT !.a = ArgumentAfterNormalize(@)]
    /\ UNCHANGED <<pc, weights, indicator_types, validate_input>>
    /\ UNCHANGED <<ahpVars, batchVars, gaVars, primaryVars, fceVars,
                   crVars, evalVars, normVars>>

NextCalls ==
    \/ CallValidateJudgmentMatrix
    \/ CallCalculateWeights
    \/ CallFuzzyEvaluate
    \/ CallVectorNormalize
    \/ CallTopsisRank

SpecCalls == InitCalls /\ [][NextCalls]_vars

CallerArguments ==
    <<decision_matrix, weights, indicator_types, judgment_matrix,
      expert_assessments, fuzzy_scale>>

C26_BatchRankEqualsSingleRank ==
    BatchReturned =>
        \A i \in 1..Len(schemes) :
            batch_results.individual_results[i].rank
                = schemes[i].evaluation.rank

\* C29: for every structurally valid 2 x 2 judgment matrix, whose RI is 0,
\* calculate_weights divides by no zero: it reports CR = 0 and raises no
\* consistency error, for any cr_threshold > 0.
C29_TwoByTwoReportsZeroCR ==
    (/\ AhpCalled /\ StructurallyValid
     /\ NumRows(judgment_matrix) = 2
     /\ cr_threshold > 0)
    => /\ ahp_result.raised = "none"
       /\ ahp_result.CR = 0

\* a 2 x 2 matrix of unequal judgments, with the consistency check on
C29_Witness ==
    /\ AhpCalled /\ StructurallyValid
    /\ NumRows(judgment_matrix) = 2
    /\ judgment_matrix.a[1][2] # EntryUnit
    /\ cr_threshold > 0
    /\ validate_consistency
    /\ ahp_result.raised = "none"
    /\ ahp_result.CR = 0

\* C30: with validate_input = False topsis_rank validates nothing: it never
\* raises a data-validation error, whatever the decision matrix, the weights
\* and the indicator types are.
C30_NoValidationErrorWhenDisabled ==
    (pc = "done" /\ validate_input = FALSE)
        => topsis_result.raised # "DataValidationError"

====
